---- MODULE Spec2Model ----
(***************************************************************************)
(* A model of the ascii-converter: the AsciiImg character grid and its     *)
(* write rule (stitchText), the edge and luminance passes that fill it,    *)
(* the angle -> glyph classifier, the luminance mappers, the option        *)
(* parsers in front of them, createFrames, which splits a video into its   *)
(* frames, runConverter, which converts the frames one after the other,    *)
(* the preview of the result, and the gracefulExit handler of the process. *)
(*                                                                         *)
(* Representation.  A JavaScript string is a sequence of one-character     *)
(* strings, <<"$", " ">> for "$ ".  A value that is either one character   *)
(* or the JavaScript value undefined is a TLA+ string: the character, or   *)
(* Undefined.  Rows and columns are 0-based as in the source; sequences    *)
(* are 1-based, hence the +1 when a row is selected.                       *)
(***************************************************************************)
EXTENDS Integers, Sequences, FiniteSets, TLC

VARIABLES
    variant,    \* which AsciiImg source is running: "A" src/cli.ts, "B" src/types/cli.ts
    mods,       \* AsciiImg.mods: [width, height, threshold]
    pixels,     \* AsciiImg.#pixels (variant B): the density string
    text,       \* AsciiImg.#text: one string per row
    err,        \* the error raised by the last operation, "none" otherwise
    last,       \* history: the last stitchText call and the cell it found
    pc,         \* position of the running code
    row,        \* loop variable of the pass in progress
    col,        \* loop variable of the pass in progress
    data,       \* locals of the running function: Gx, Gy, magnitude.all, magnitude.max of
                \* edgeToAscii; frameCount, frameDigitLen of createFrames; asciiFrames of the preview
    buffer,     \* local of lumaToAscii: the raw greyscale samples
    edgeLayer,  \* history: the character the edge pass wrote for each cell, in order
    argv,       \* the command line option values handed to the parsers
    angle,      \* argument of the classifier call
    edgeChar,   \* what the classifier returned
    img,        \* AsciiImg.pipeline: the decoded image the passes read
    state,      \* global.state: frames, asciiResult, live
    options,    \* the parsed command line: output, spaceChar, preview
    fs,         \* the file system: the temporary directory, the frame files, the output file
    frame,      \* the loop variable i of runConverter, of createFrames, of the preview
    clean,      \* the variable clean of gracefulExit
    term,       \* the terminal: cursor, alternate buffer, the frame on screen, what console.log printed
    removals    \* history: the number of fs.rmSync calls on the temporary directory

vars == <<variant, mods, pixels, text, err, last, pc, row, col, data,
          buffer, edgeLayer, argv, angle, edgeChar,
          img, state, options, fs, frame, clean, term, removals>>

----------------------------------------------------------------------------
(* Bounds of the model *)

MaxWidth == 2
MaxHeight == 2
(* a grid has at most MaxCells cells *)
MaxCells == 4
(* the classifier is tried on the degrees -AngleSlack .. 180 + AngleSlack *)
AngleSlack == 20
(* a video is split into at most MaxFrames frames *)
MaxFrames == 2

(* Characters handed to stitchText by the tests *)
Glyphs == {" ", "$", "!"}

----------------------------------------------------------------------------
(* JavaScript strings *)

Undefined == "undefined"

(* s[i]: the character at index i, undefined outside the string *)
CharAt(s, i) == IF i >= 0 /\ i < Len(s) THEN s[i + 1] ELSE Undefined

(* s.slice(a, b) for 0 <= a *)
Slice(s, a, b) == SubSeq(s, a + 1, IF b < Len(s) THEN b ELSE Len(s))

(* s.slice(a) for 0 <= a *)
SliceFrom(s, a) == SubSeq(s, a + 1, Len(s))

(* the string a value becomes when it is concatenated to a string *)
StringOf(char) ==
    IF char = Undefined
    THEN <<"u", "n", "d", "e", "f", "i", "n", "e", "d">>
    ELSE <<char>>

(* Array(n).fill("") *)
EmptyRows(n) == [i \in 1..n |-> <<>>]

----------------------------------------------------------------------------
(* AsciiImg.stitchText / #stitchText / stich *)

(* this.#text[pixelRow] is undefined for a row outside the array, and      *)
(* reading [pixelCol] of undefined throws a TypeError                      *)
stitchThrows(txt, pixelRow) == ~(pixelRow >= 0 /\ pixelRow < Len(txt))

(* stitchText with a fault: every cell that holds a character is replaced, *)
(* not only a space                                                        *)
stitchText_overwrite(txt, pixelRow, pixelCol, char) ==
    LET target == CharAt(txt[pixelRow + 1], pixelCol) IN
    IF target # Undefined
    THEN [txt EXCEPT ![pixelRow + 1] =
              Slice(@, 0, pixelCol) \o StringOf(char) \o SliceFrom(@, pixelCol + 1)]
    ELSE [txt EXCEPT ![pixelRow + 1] = @ \o StringOf(char)]

(* stitchText with a fault: the replaced space is kept, slice(pixelCol)    *)
(* for slice(pixelCol + 1)                                                 *)
stitchText_keepSpace(txt, pixelRow, pixelCol, char) ==
    LET target == CharAt(txt[pixelRow + 1], pixelCol) IN
    IF target = " "
    THEN [txt EXCEPT ![pixelRow + 1] =
              Slice(@, 0, pixelCol) \o StringOf(char) \o SliceFrom(@, pixelCol)]
    ELSE IF target = Undefined
    THEN [txt EXCEPT ![pixelRow + 1] = @ \o StringOf(char)]
    ELSE txt

(* stitchText with a fault: the rest of the row after the replaced space   *)
(* is lost                                                                 *)
stitchText_dropTail(txt, pixelRow, pixelCol, char) ==
    LET target == CharAt(txt[pixelRow + 1], pixelCol) IN
    IF target = " "
    THEN [txt EXCEPT ![pixelRow + 1] = Slice(@, 0, pixelCol) \o StringOf(char)]
    ELSE IF target = Undefined
    THEN [txt EXCEPT ![pixelRow + 1] = @ \o StringOf(char)]
    ELSE txt

stitchText(txt, pixelRow, pixelCol, char) ==
    LET target == CharAt(txt[pixelRow + 1], pixelCol) IN
    IF target = " "
    THEN [txt EXCEPT ![pixelRow + 1] =
              Slice(@, 0, pixelCol) \o StringOf(char) \o SliceFrom(@, pixelCol + 1)]
    ELSE IF target = Undefined
    THEN [txt EXCEPT ![pixelRow + 1] = @ \o StringOf(char)]
    ELSE txt

NoCall == [op |-> "none"]

(* the record kept of a stitchText call *)
Call(txt, pixelRow, pixelCol, char) ==
    [op |-> "stitchText", row |-> pixelRow, col |-> pixelCol, char |-> char,
     target |-> IF stitchThrows(txt, pixelRow) THEN Undefined
                ELSE CharAt(txt[pixelRow + 1], pixelCol),
     before |-> txt]

----------------------------------------------------------------------------
(* Spec: an AsciiImg is constructed and stitchText is called on it, as the *)
(* tests do.                                                               *)

NoData == [op |-> "none"]

(* an image whose content the model leaves open *)
AnyImg == [kind |-> "any", G |-> <<>>, samples |-> <<>>]

(* no runConverter is involved: global.state as globals.ts creates it, no  *)
(* options, no files                                                       *)
InitialState == [frames |-> <<>>, asciiResult |-> <<>>, live |-> TRUE]

NoOptions == [output |-> "", spaceChar |-> <<" ">>, preview |-> FALSE]

(* the terminal before the program writes to it: the cursor visible, the   *)
(* main screen buffer, nothing displayed, nothing logged; late counts the  *)
(* frames displayed after global.state.live became false                   *)
InitialTerm ==
    [cursor |-> TRUE, alternate |-> FALSE, shown |-> -1, screen |-> <<>>,
     log |-> <<>>, late |-> 0]

NoFiles == [tmpDir |-> FALSE, frames |-> <<>>, input |-> AnyImg, output |-> <<>>]

NoRunner ==
    /\ img = AnyImg
    /\ state = InitialState
    /\ options = NoOptions
    /\ fs = NoFiles
    /\ frame = 0
    /\ clean = FALSE
    /\ term = InitialTerm
    /\ removals = 0

Init ==
    /\ NoRunner
    /\ variant = "A"
    /\ \E w \in 1..MaxWidth, h \in 1..MaxHeight :
          /\ w * h <= MaxCells
          /\ mods = [width |-> w, height |-> h, threshold |-> 1]
          /\ text = EmptyRows(h)
    /\ pixels = <<>>
    /\ err = "none"
    /\ last = NoCall
    /\ pc = "api"
    /\ row = 0
    /\ col = 0
    /\ data = NoData
    /\ buffer = <<>>
    /\ edgeLayer = <<>>
    /\ argv = NoData
    /\ angle = 0
    /\ edgeChar = ""

StitchText ==
    /\ pc = "api"
    /\ \E pixelRow \in 0..mods.height, pixelCol \in 0..(mods.width - 1), char \in Glyphs :
          /\ last' = Call(text, pixelRow, pixelCol, char)
          /\ IF stitchThrows(text, pixelRow)
             THEN /\ err' = "TypeError"
                  /\ text' = text
             ELSE /\ err' = "none"
                  /\ text' = stitchText(text, pixelRow, pixelCol, char)
    /\ UNCHANGED <<term, removals, img, state, options, fs, frame, clean, variant, mods, pixels, pc, row, col, data, buffer, edgeLayer,
                   argv, angle, edgeChar>>

Next == StitchText

Spec == Init /\ [][Next]_vars

----------------------------------------------------------------------------
(* The angle -> edge glyph classifier *)

(* the conditions of the if / else-if chain, in its order *)
InHorizontal(a) == (a >= 0 /\ a <= 19) \/ (a <= 180 /\ a >= 161)
InRightDiagonal(a) == a >= 20 /\ a <= 70
InVertical(a) == a >= 71 /\ a <= 109
InLeftDiagonal(a) == a >= 110 /\ a <= 160

(* determineEdgeChar with a fault: the right diagonal starts a degree late *)
determineEdgeChar_gap(a) ==
    IF InHorizontal(a) THEN "-"
    ELSE IF a >= 21 /\ a <= 70 THEN "\\"
    ELSE IF InVertical(a) THEN "|"
    ELSE IF InLeftDiagonal(a) THEN "/"
    ELSE "+"

(* determineEdgeChar with a fault: the reserved branch returns a blank *)
determineEdgeChar_blank(a) ==
    IF InHorizontal(a) THEN "-"
    ELSE IF InRightDiagonal(a) THEN "\\"
    ELSE IF InVertical(a) THEN "|"
    ELSE IF InLeftDiagonal(a) THEN "/"
    ELSE " "

(* utils/char.ts *)
determineEdgeChar(a) ==
    IF InHorizontal(a) THEN "-"
    ELSE IF InRightDiagonal(a) THEN "\\"
    ELSE IF InVertical(a) THEN "|"
    ELSE IF InLeftDiagonal(a) THEN "/"
    ELSE "+"

(* AsciiImg.edgeToChar of the class that takes the density string *)
edgeToChar(a) ==
    IF InHorizontal(a) THEN "-"
    ELSE IF InRightDiagonal(a) THEN "\\"
    ELSE IF InVertical(a) THEN "|"
    ELSE IF InLeftDiagonal(a) THEN "/"
    ELSE "+"

(* main.ts: the last branch is a space *)
determineEdgeCharMain(a) ==
    IF InHorizontal(a) THEN "-"
    ELSE IF InRightDiagonal(a) THEN "\\"
    ELSE IF InVertical(a) THEN "|"
    ELSE IF InLeftDiagonal(a) THEN "/"
    ELSE " "

(* SpecChar: one classifier is called on one integer degree value.  None   *)
(* of the three has a throw statement, so the call returns normally.       *)

InitChar ==
    /\ NoRunner
    /\ variant \in {"char.ts", "edgeToChar", "main.ts"}
    /\ angle \in (0 - AngleSlack)..(180 + AngleSlack)
    /\ pc = "classify"
    /\ edgeChar = ""
    /\ mods = [width |-> 0, height |-> 0, threshold |-> 0]
    /\ pixels = <<>>
    /\ text = <<>>
    /\ err = "none"
    /\ last = NoCall
    /\ row = 0
    /\ col = 0
    /\ data = NoData
    /\ buffer = <<>>
    /\ edgeLayer = <<>>
    /\ argv = NoData

Returned(char) ==
    /\ pc' = "classified"
    /\ edgeChar' = char
    /\ err' = "none"
    /\ UNCHANGED <<term, removals, img, state, options, fs, frame, clean, variant, mods, pixels, text, last, row, col, data, buffer,
                   edgeLayer, argv, angle>>

DetermineEdgeChar ==
    /\ pc = "classify" /\ variant = "char.ts"
    /\ Returned(determineEdgeChar(angle))

EdgeToChar ==
    /\ pc = "classify" /\ variant = "edgeToChar"
    /\ Returned(edgeToChar(angle))

DetermineEdgeCharMain ==
    /\ pc = "classify" /\ variant = "main.ts"
    /\ Returned(determineEdgeCharMain(angle))

NextChar == DetermineEdgeChar \/ EdgeToChar \/ DetermineEdgeCharMain

SpecChar == InitChar /\ [][NextChar]_vars

----------------------------------------------------------------------------
(* Numbers of the conversion *)

(* mapValue with a fault: the proportion is taken from the end of the      *)
(* input range                                                             *)
mapValue_inverted(value, inStart, inEnd, outStart, outEnd) ==
    LET inLen == inEnd - inStart
        outLen == outEnd - outStart
    IN  [num |-> (inEnd - value) * outLen + outStart * inLen, den |-> inLen]

(* mapValue: the result is the rational num / den, den = inLen *)
mapValue(value, inStart, inEnd, outStart, outEnd) ==
    LET inLen == inEnd - inStart
        outLen == outEnd - outStart
    IN  [num |-> (value - inStart) * outLen + outStart * inLen, den |-> inLen]

(* Floor with a fault: Math.ceil *)
Floor_ceil(q) == 0 - ((0 - q.num) \div q.den)

(* Math.floor of a rational with a positive denominator *)
Floor(q) == q.num \div q.den

(* DataView.getInt16(offset, true): two bytes, little-endian, two's complement *)
getInt16(bytes, offset) ==
    LET u == bytes[offset + 1] + 256 * bytes[offset + 2]
    IN  IF u >= 32768 THEN u - 65536 ELSE u

(* the two bytes of a signed 16-bit value in a raw({ depth: "short" }) buffer *)
ShortBytes(v) == LET u == v % 65536 IN <<u % 256, u \div 256>>

RECURSIVE RawShort(_)
RawShort(values) ==
    IF values = <<>> THEN <<>>
    ELSE ShortBytes(Head(values)) \o RawShort(Tail(values))

(* Gx ** 2 + Gy ** 2: a magnitude Math.sqrt(n) is kept as the integer n    *)
(* under the root, which determines it exactly                             *)
MagnitudeSq(gx, gy) == gx * gx + gy * gy

(* floor(sqrt(n)) *)
ISqrt(n) == CHOOSE p \in 0..n : p * p <= n /\ (p + 1) * (p + 1) > n

(* the number of binary digits of p *)
RECURSIVE BitLength(_)
BitLength(p) == IF p = 0 THEN 0 ELSE 1 + BitLength(p \div 2)

(* k more binary digits of a square root, digit by digit: p is the root so *)
(* far and r the remainder                                                 *)
RECURSIVE SqrtDigits(_, _, _)
SqrtDigits(p, r, k) ==
    IF k = 0 THEN [root |-> p, rem |-> r]
    ELSE IF 4 * r >= 4 * p + 1
         THEN SqrtDigits(2 * p + 1, 4 * r - 4 * p - 1, k - 1)
         ELSE SqrtDigits(2 * p, 4 * r, k - 1)

(* significant binary digits of a float32 *)
Float32Digits == 24

(* setFloat32 then getFloat32 of Math.sqrt(n): the value is rounded to 24  *)
(* significant digits, to nearest, ties to even.  TRUE when the float32    *)
(* read back is greater than the double that was stored.                   *)
Float32RoundsUp(n) ==
    IF n = 0 THEN FALSE
    ELSE LET p0 == ISqrt(n)
             d == SqrtDigits(p0, n - p0 * p0, Float32Digits + 1 - BitLength(p0))
         IN  d.root % 2 = 1 /\ (d.rem # 0 \/ (d.root \div 2) % 2 = 1)

(* the first loop of edgeToAscii over cells 0 .. n-1: magnitude.max *)
RECURSIVE MaxMagnitude(_, _, _)
MaxMagnitude(Gx, Gy, n) ==
    IF n = 0 THEN [finite |-> FALSE, sq |-> 0]
    ELSE LET before == MaxMagnitude(Gx, Gy, n - 1)
             cur == MagnitudeSq(getInt16(Gx, (n - 1) * 2), getInt16(Gy, (n - 1) * 2))
         IN  IF before.finite /\ before.sq >= cur THEN before
             ELSE [finite |-> TRUE, sq |-> cur]

(* magnitude.max * threshold: Math.sqrt(sq) * num / den when max is finite *)
ThresholdOf(max, t) ==
    IF max.finite THEN [kind |-> "finite", sq |-> max.sq, num |-> t.num, den |-> t.den]
    ELSE IF t.num > 0 THEN [kind |-> "-Infinity", sq |-> 0, num |-> t.num, den |-> t.den]
    ELSE IF t.num = 0 THEN [kind |-> "NaN", sq |-> 0, num |-> t.num, den |-> t.den]
    ELSE [kind |-> "Infinity", sq |-> 0, num |-> t.num, den |-> t.den]

ThresholdIsZero(thr) == thr.kind = "finite" /\ (thr.sq = 0 \/ thr.num = 0)

(* Exceeds with a fault: the comparison is >= *)
Exceeds_orEqual(curSq, thr) ==
    IF thr.kind = "-Infinity" THEN TRUE
    ELSE IF thr.kind # "finite" THEN FALSE
    ELSE IF thr.num < 0 THEN TRUE
    ELSE curSq * thr.den * thr.den >= thr.sq * thr.num * thr.num

(* curMagnitude > threshold, curMagnitude the float32 of Math.sqrt(curSq). *)
(* Squares decide unless both sides are equal as reals; then the float32   *)
(* rounding of curMagnitude decides (the product is exact for the ratios   *)
(* 0, 1/2 and 1, and both sides are 0 otherwise within the bounds).        *)
Exceeds(curSq, thr) ==
    IF thr.kind = "-Infinity" THEN TRUE
    ELSE IF thr.kind # "finite" THEN FALSE
    ELSE IF thr.num < 0 THEN thr.sq > 0 \/ curSq > 0
    ELSE LET lhs == curSq * thr.den * thr.den
             rhs == thr.sq * thr.num * thr.num
         IN  IF lhs # rhs THEN lhs > rhs ELSE Float32RoundsUp(curSq)

(* angles are kept in millionths of a degree *)
DegreeUnit == 1000000

RECURSIVE GCD(_, _)
GCD(a, b) == IF b = 0 THEN a ELSE GCD(b, a % b)

(* the arctangent of num / den, to the nearest millionth of a degree, for  *)
(* the ratios in lowest terms of the gradients of the model                *)
AtanTable == (<<0, 1>> :> 0) @@ (<<1, 1>> :> 45000000) @@ (<<1, 2>> :> 26565051)
             @@ (<<1, 3>> :> 18434949) @@ (<<2, 3>> :> 33690068)
             @@ (<<1, 4>> :> 14036243) @@ (<<3, 4>> :> 36869898)
             @@ (<<1, 5>> :> 11309932) @@ (<<2, 5>> :> 21801409)
             @@ (<<3, 5>> :> 30963757) @@ (<<4, 5>> :> 38659808)
             @@ (<<1, 32767>> :> 1749) @@ (<<1, 32768>> :> 1749)
             @@ (<<32767, 32768>> :> 44999126)

Abs(x) == IF x < 0 THEN 0 - x ELSE x

(* Math.atan2(y, x) in millionths of a degree, in -180 .. 180 degrees *)
atan2(y, x) ==
    IF x = 0 /\ y = 0 THEN 0
    ELSE LET ax == Abs(x)
             ay == Abs(y)
             lo == IF ay <= ax THEN ay ELSE ax
             hi == IF ay <= ax THEN ax ELSE ay
             g == GCD(hi, lo)
             t == AtanTable[<<lo \div g, hi \div g>>]
             a == IF ay <= ax THEN t ELSE 90 * DegreeUnit - t
             b == IF x >= 0 THEN a ELSE 180 * DegreeUnit - a
         IN  IF y < 0 THEN 0 - b ELSE b

(* the JavaScript remainder: the sign of the dividend *)
Rem(a, b) == IF a < 0 THEN 0 - ((0 - a) % b) ELSE a % b

(* Math.round of an angle to whole degrees: to nearest, halves up *)
RoundDegrees(c) == (c + DegreeUnit \div 2) \div DegreeUnit

(* EdgeAngleDeg with a fault: a negative remainder is not brought back     *)
(* into range                                                              *)
EdgeAngleDeg_noWrap(gx, gy) ==
    RoundDegrees(Rem(atan2(gy, gx) + 90 * DegreeUnit, 180 * DegreeUnit))

(* EdgeAngleDeg with a fault: the angle of the gradient, not of the edge *)
EdgeAngleDeg_gradient(gx, gy) ==
    LET rem == Rem(atan2(gy, gx), 180 * DegreeUnit)
        normalizedAngle == IF rem < 0 THEN rem + 180 * DegreeUnit ELSE rem
    IN  RoundDegrees(normalizedAngle)

(* src/cli.ts: the edge angle is normalised in radians, then rounded *)
EdgeAngleDeg(gx, gy) ==
    LET gradientAngle == atan2(gy, gx)
        edgeAngle == gradientAngle + 90 * DegreeUnit
        rem == Rem(edgeAngle, 180 * DegreeUnit)
        normalizedAngle == IF rem < 0 THEN rem + 180 * DegreeUnit ELSE rem
    IN  RoundDegrees(normalizedAngle)

(* src/types/cli.ts: the gradient angle is rounded to degrees first *)
EdgeAngleDegRounded(gx, gy) ==
    LET gradientAngleDeg == RoundDegrees(atan2(gy, gx))
        rem == Rem(gradientAngleDeg + 90, 180)
    IN  IF rem < 0 THEN rem + 180 ELSE rem

(* utils/char.ts *)
LUMA_CHARS == <<"#", "$", "?", "0", "=", "*", "c", "~", ".", " ">>

(* the local index of determineLumaChar *)
determineLumaIndex(luminance) ==
    Floor(mapValue(luminance, 0, 255, 0, Len(LUMA_CHARS) - 1))

determineLumaChar(luminance) == CharAt(LUMA_CHARS, determineLumaIndex(luminance))

(* lumaToCharIndex with a fault: the samples are mapped onto 0 .. length *)
lumaToCharIndex_full(density, luminance) ==
    Floor(mapValue(luminance, 0, 255, 0, Len(density)))

(* AsciiImg.lumaToChar of the class that takes the density string, and its *)
(* local index                                                             *)
lumaToCharIndex(density, luminance) ==
    Floor(mapValue(luminance, 0, 255, 0, Len(density) - 1))

lumaToChar(density, luminance) == CharAt(density, lumaToCharIndex(density, luminance))

(* main.ts *)
DENSITY == <<"#", "$", "?", "0", "=", "*", "c", "~", ".", " ">>

(* Math.round of a rational with a positive denominator: to nearest, halves up *)
Round(q) == (2 * q.num + q.den) \div (2 * q.den)

(* the local charIndex of luminanceToASCII *)
charIndex(luminance) == Round(mapValue(luminance, 0, 255, 0, Len(DENSITY) - 1))

----------------------------------------------------------------------------
(* Inputs of the conversion *)

(* threshold ratios num / den *)
Thresholds == {[num |-> 0, den |-> 1], [num |-> 1, den |-> 2], [num |-> 1, den |-> 1]}

(* the <<Gx, Gy>> a convolution can give for one cell: no gradient, one    *)
(* per glyph, and <<1, 2>> whose magnitude rounds up as a float32          *)
GradPairs == {<<0, 0>>, <<1, 0>>, <<0, 1>>, <<1, 2>>, <<-2, 2>>}

(* greyscale samples: the darkest and the brightest *)
Samples == {0, 255}

(* the cells both passes visit *)
NumCells(m) == IF m.width > 0 /\ m.height > 0 THEN m.width * m.height ELSE 0

NoMods == [width |-> 0, height |-> 0, threshold |-> [num |-> 0, den |-> 1]]

----------------------------------------------------------------------------
(* AsciiImg of src/cli.ts: new AsciiImg(imgBuffer, imgMods?) *)

(* DefaultMods with a fault: the defaults of the older ASCIIImg.init *)
DefaultMods_init == [width |-> 80, height |-> 40, threshold |-> [num |-> 8, den |-> 10]]

DefaultMods == [width |-> 100, height |-> 50, threshold |-> [num |-> 7, den |-> 10]]

(* an optional argument is the empty set or a singleton *)
ModsOf(imgMods) == IF imgMods # {} THEN CHOOSE m \in imgMods : TRUE ELSE DefaultMods

ModsArgs ==
    {{}} \cup {{[width |-> w, height |-> h, threshold |-> t]} :
                  w \in 1..MaxWidth, h \in 1..MaxHeight, t \in Thresholds}

(* argv keeps the argument of the call *)
NewAsciiImg ==
    /\ pc = "new" /\ variant = "A"
    /\ \E imgMods \in ModsArgs :
          /\ argv' = [op |-> "new", imgMods |-> imgMods]
          /\ mods' = ModsOf(imgMods)
          /\ text' = EmptyRows(ModsOf(imgMods).height)
    /\ pc' = "constructed"
    /\ UNCHANGED <<term, removals, img, state, options, fs, frame, clean, variant, pixels, err, last, row, col, data, buffer, edgeLayer,
                   angle, edgeChar>>

----------------------------------------------------------------------------
(* edgeToAscii *)

(* what the two convolutions of an image give for its n cells: anything    *)
(* for an image left open, the gradients of the image otherwise            *)
Gradients(image, n) ==
    IF image.kind = "any" THEN [1..n -> GradPairs] ELSE {image.G}

(* the raw greyscale buffer of an image of n cells *)
RawSamples(image, n) ==
    IF image.kind = "any" THEN [1..n -> Samples] ELSE {image.samples}

(* the locals of edgeToAscii after its first loop and the threshold *)
EdgeData(G, m) ==
    LET n == NumCells(m)
        Gx == RawShort([i \in 1..n |-> G[i][1]])
        Gy == RawShort([i \in 1..n |-> G[i][2]])
        max == MaxMagnitude(Gx, Gy, n)
    IN  [op |-> "edgeToAscii", Gx |-> Gx, Gy |-> Gy,
         all |-> [i \in 1..n |->
                     MagnitudeSq(getInt16(Gx, (i - 1) * 2),
                                 getInt16(Gy, (i - 1) * 2))],
         max |-> max,
         threshold |-> ThresholdOf(max, m.threshold)]

(* the awaited convolutions deliver Gx and Gy; the first loop fills        *)
(* magnitude.all and magnitude.max, then the threshold is computed         *)
EdgeBegin ==
    /\ pc = "constructed"
    /\ img.kind # "corrupt"
    /\ NumCells(mods) <= MaxCells
    /\ \E G \in Gradients(img, NumCells(mods)) : data' = EdgeData(G, mods)
    /\ pc' = "edge"
    /\ row' = 0
    /\ col' = 0
    /\ UNCHANGED <<term, removals, img, state, options, fs, frame, clean, variant, mods, pixels, text, err, last, buffer, edgeLayer,
                   argv, angle, edgeChar>>

(* the character the second loop of edgeToAscii writes for cell index *)
EdgeCharIn(d, index) ==
    LET curMagnitude == d.all[index + 1]
        gx == getInt16(d.Gx, index * 2)
        gy == getInt16(d.Gy, index * 2)
    IN  IF Exceeds(curMagnitude, d.threshold)
        THEN IF variant = "A" THEN determineEdgeChar(EdgeAngleDeg(gx, gy))
             ELSE edgeToChar(EdgeAngleDegRounded(gx, gy))
        ELSE " "

EdgeCharAt(index) == EdgeCharIn(data, index)

(* one call of stitchText from a pass *)
Stitch(char) ==
    /\ last' = Call(text, row, col, char)
    /\ text' = stitchText(text, row, col, char)
    /\ col' = col + 1
    /\ UNCHANGED row

EdgeCell ==
    /\ pc = "edge"
    /\ row < mods.height /\ col < mods.width
    /\ Stitch(EdgeCharAt(row * mods.width + col))
    /\ edgeLayer' = Append(edgeLayer, EdgeCharAt(row * mods.width + col))
    /\ UNCHANGED <<term, removals, img, state, options, fs, frame, clean, variant, mods, pixels, err, pc, data, buffer,
                   argv, angle, edgeChar>>

EdgeNextRow ==
    /\ pc = "edge"
    /\ row < mods.height /\ ~(col < mods.width)
    /\ row' = row + 1
    /\ col' = 0
    /\ UNCHANGED <<term, removals, img, state, options, fs, frame, clean, variant, mods, pixels, text, err, last, pc, data, buffer,
                   edgeLayer, argv, angle, edgeChar>>

(* return this: the locals are gone *)
EdgeReturn ==
    /\ pc = "edge"
    /\ ~(row < mods.height)
    /\ pc' = "edged"
    /\ data' = NoData
    /\ UNCHANGED <<term, removals, img, state, options, fs, frame, clean, variant, mods, pixels, text, err, last, row, col, buffer,
                   edgeLayer, argv, angle, edgeChar>>

----------------------------------------------------------------------------
(* lumaToAscii *)

(* LumaBegin with a fault: lumaToAscii does not wait for the edge pass *)
LumaBegin_early ==
    /\ pc \in {"edge", "edged"}
    /\ buffer' \in RawSamples(img, NumCells(mods))
    /\ pc' = "luma"
    /\ row' = 0
    /\ col' = 0
    /\ UNCHANGED <<term, removals, img, state, options, fs, frame, clean, variant, mods, pixels,
                   text, err, last, data, edgeLayer, argv, angle, edgeChar>>

(* the awaited raw buffer arrives *)
LumaBegin ==
    /\ pc = "edged"
    /\ buffer' \in RawSamples(img, NumCells(mods))
    /\ pc' = "luma"
    /\ row' = 0
    /\ col' = 0
    /\ UNCHANGED <<term, removals, img, state, options, fs, frame, clean, variant, mods, pixels, text, err, last, data, edgeLayer,
                   argv, angle, edgeChar>>

(* LumaCharAt with a fault: the sample of the next cell is read *)
LumaCharAt_shifted(pixel) ==
    determineLumaChar(buffer[((pixel + 1) % Len(buffer)) + 1])

LumaCharAt(pixel) ==
    IF variant = "A" THEN determineLumaChar(buffer[pixel + 1])
    ELSE lumaToChar(pixels, buffer[pixel + 1])

LumaCell ==
    /\ pc = "luma"
    /\ row < mods.height /\ col < mods.width
    /\ Stitch(LumaCharAt(row * mods.width + col))
    /\ UNCHANGED <<term, removals, img, state, options, fs, frame, clean, variant, mods, pixels, err, pc, data, buffer, edgeLayer,
                   argv, angle, edgeChar>>

LumaNextRow ==
    /\ pc = "luma"
    /\ row < mods.height /\ ~(col < mods.width)
    /\ row' = row + 1
    /\ col' = 0
    /\ UNCHANGED <<term, removals, img, state, options, fs, frame, clean, variant, mods, pixels, text, err, last, pc, data, buffer,
                   edgeLayer, argv, angle, edgeChar>>

LumaReturn ==
    /\ pc = "luma"
    /\ ~(row < mods.height)
    /\ pc' = "done"
    /\ buffer' = <<>>
    /\ UNCHANGED <<term, removals, img, state, options, fs, frame, clean, variant, mods, pixels, text, err, last, row, col, data,
                   edgeLayer, argv, angle, edgeChar>>

Convert ==
    \/ EdgeBegin \/ EdgeCell \/ EdgeNextRow \/ EdgeReturn
    \/ LumaBegin \/ LumaCell \/ LumaNextRow \/ LumaReturn

----------------------------------------------------------------------------
(* SpecFrame: one frame is converted by the AsciiImg of src/cli.ts, as     *)
(* runConverter does: new AsciiImg, edgeToAscii, lumaToAscii.              *)

InitFrame ==
    /\ NoRunner
    /\ variant = "A"
    /\ pc = "new"
    /\ mods = NoMods
    /\ pixels = <<>>
    /\ text = <<>>
    /\ err = "none"
    /\ last = NoCall
    /\ row = 0
    /\ col = 0
    /\ data = NoData
    /\ buffer = <<>>
    /\ edgeLayer = <<>>
    /\ argv = NoData
    /\ angle = 0
    /\ edgeChar = ""

NextFrame == NewAsciiImg \/ Convert

SpecFrame == InitFrame /\ [][NextFrame]_vars

----------------------------------------------------------------------------
(* The option parsers and the AsciiImg of src/types/cli.ts, which takes    *)
(* the density string: new AsciiImg(img, imgMods, pixels)                  *)

(* parseThresholdOpt: the parsed float is NaN or the ratio num / den *)
parseThresholdThrows(threshold) ==
    IF threshold.nan THEN TRUE
    ELSE threshold.num > threshold.den \/ threshold.num < 0

parseThresholdOpt(threshold) == [num |-> threshold.num, den |-> threshold.den]

(* parseDimensionsOpt: dimensions is the list dimensions.split("x") gives, *)
(* each piece already a number                                             *)
parseDimensionsThrows(dimensions) ==
    \/ Len(dimensions) > 2 \/ Len(dimensions) < 2
    \/ \E i \in 1..Len(dimensions) : dimensions[i] <= 0

parseDimensionsOpt(dimensions) == [width |-> dimensions[1], height |-> dimensions[2]]

(* the option values tried: -p has no parser, any string is taken *)
ThresholdArgs ==
    {[nan |-> TRUE, num |-> 0, den |-> 1], [nan |-> FALSE, num |-> -1, den |-> 2],
     [nan |-> FALSE, num |-> 1, den |-> 2], [nan |-> FALSE, num |-> 3, den |-> 2]}

DimensionArgs ==
    {<<1>>, <<1, 1, 1>>} \cup {<<w, h>> : w \in -1..MaxWidth, h \in 0..1}

PixelArgs == {<<>>, <<"#", " ">>}

ParseOptions ==
    /\ pc = "argv"
    /\ IF parseThresholdThrows(argv.threshold) \/ parseDimensionsThrows(argv.dimensions)
       THEN /\ err' = "InvalidArgumentError"
            /\ pc' = "rejected"
       ELSE /\ err' = "none"
            /\ pc' = "parsed"
    /\ UNCHANGED <<term, removals, img, state, options, fs, frame, clean, variant, mods, pixels, text, last, row, col, data, buffer,
                   edgeLayer, argv, angle, edgeChar>>

(* Array(n) throws a RangeError for a negative length *)
ArrayThrows(n) == n < 0

(* the constructor: no argument is checked; a non-positive width or height *)
(* only selects the pipeline without the resize                            *)
NewAsciiImgPixels ==
    /\ pc = "parsed" /\ variant = "B"
    /\ LET imgMods == [width |-> parseDimensionsOpt(argv.dimensions).width,
                       height |-> parseDimensionsOpt(argv.dimensions).height,
                       threshold |-> parseThresholdOpt(argv.threshold)]
       IN  /\ mods' = imgMods
           /\ pixels' = argv.pixels
           /\ IF ArrayThrows(imgMods.height)
              THEN /\ err' = "RangeError"
                   /\ pc' = "rejected"
                   /\ text' = text
              ELSE /\ err' = "none"
                   /\ pc' = "constructed"
                   /\ text' = EmptyRows(imgMods.height)
    /\ UNCHANGED <<term, removals, img, state, options, fs, frame, clean, variant, last, row, col, data, buffer, edgeLayer, argv,
                   angle, edgeChar>>

(* SpecConfig: the options are parsed, the AsciiImg is constructed from    *)
(* them and the frame is converted.                                        *)

InitConfig ==
    /\ NoRunner
    /\ variant = "B"
    /\ pc = "argv"
    /\ argv \in [op : {"argv"}, dimensions : DimensionArgs,
                 threshold : ThresholdArgs, pixels : PixelArgs]
    /\ mods = NoMods
    /\ pixels = <<>>
    /\ text = <<>>
    /\ err = "none"
    /\ last = NoCall
    /\ row = 0
    /\ col = 0
    /\ data = NoData
    /\ buffer = <<>>
    /\ edgeLayer = <<>>
    /\ angle = 0
    /\ edgeChar = ""

NextConfig == ParseOptions \/ NewAsciiImgPixels \/ Convert

SpecConfig == InitConfig /\ [][NextConfig]_vars

----------------------------------------------------------------------------
(* SpecLuma: one luminance mapper is run on one greyscale sample.          *)
(* determineLumaChar (utils/char.ts) and AsciiImg.lumaToChar return the    *)
(* character; luminanceToASCII (main.ts) is run on an image of one cell    *)
(* and writes the character with stich, which is stitchText.               *)

(* density strings given with -p: empty, one character, and longer ones *)
Densities == {<<>>, <<"#">>, <<"#", " ">>, <<"@", "+", " ">>,
              <<"#", "$", "?", "0", "=", "x", "*", "~", ".", " ">>}

InitLuma ==
    /\ NoRunner
    /\ variant \in {"char.ts", "lumaToChar", "main.ts"}
    /\ buffer \in {<<v>> : v \in 0..255}
    /\ pixels \in (IF variant = "lumaToChar" THEN Densities ELSE {<<>>})
    /\ mods = [width |-> 1, height |-> 1, threshold |-> [num |-> 0, den |-> 1]]
    /\ text = EmptyRows(1)
    /\ pc = "map"
    /\ err = "none"
    /\ last = NoCall
    /\ row = 0
    /\ col = 0
    /\ data = NoData
    /\ edgeLayer = <<>>
    /\ argv = NoData
    /\ angle = 0
    /\ edgeChar = ""

DetermineLumaChar ==
    /\ pc = "map" /\ variant = "char.ts"
    /\ data' = [op |-> "determineLumaChar", index |-> determineLumaIndex(buffer[1]),
                char |-> determineLumaChar(buffer[1])]
    /\ pc' = "mapped"
    /\ UNCHANGED <<term, removals, img, state, options, fs, frame, clean, variant, mods, pixels, text, err, last, row, col, buffer,
                   edgeLayer, argv, angle, edgeChar>>

LumaToChar ==
    /\ pc = "map" /\ variant = "lumaToChar"
    /\ data' = [op |-> "lumaToChar", index |-> lumaToCharIndex(pixels, buffer[1]),
                char |-> lumaToChar(pixels, buffer[1])]
    /\ pc' = "mapped"
    /\ UNCHANGED <<term, removals, img, state, options, fs, frame, clean, variant, mods, pixels, text, err, last, row, col, buffer,
                   edgeLayer, argv, angle, edgeChar>>

(* both loops of luminanceToASCII, for the one cell of the image *)
LuminanceToASCII ==
    /\ pc = "map" /\ variant = "main.ts"
    /\ LET index == charIndex(buffer[0 * mods.width + 0 + 1])
           char == CharAt(DENSITY, index)
       IN  /\ data' = [op |-> "luminanceToASCII", index |-> index, char |-> char]
           /\ last' = Call(text, 0, 0, char)
           /\ text' = stitchText(text, 0, 0, char)
    /\ pc' = "mapped"
    /\ UNCHANGED <<term, removals, img, state, options, fs, frame, clean, variant, mods, pixels, err, row, col, buffer,
                   edgeLayer, argv, angle, edgeChar>>

NextLuma == DetermineLumaChar \/ LumaToChar \/ LuminanceToASCII

SpecLuma == InitLuma /\ [][NextLuma]_vars

----------------------------------------------------------------------------
(* runConverter and gracefulExit *)

(* a path of state.frames: a frame file ffmpeg wrote to the temporary      *)
(* directory, or the input image itself                                    *)
TmpFrame(k) == [dir |-> "tmpDir", name |-> k]

InputPath == [dir |-> "input", name |-> 0]

(* whether readFileSync finds the file, and the image it holds *)
Exists(path) == IF path.dir = "tmpDir" THEN fs.tmpDir ELSE TRUE

Content(path) == IF path.dir = "tmpDir" THEN fs.frames[path.name] ELSE fs.input

(* runConverter passes no modifications, so the AsciiImg has the default   *)
(* threshold and the default grid; the grid of 100 x 50 is scaled down to  *)
(* MaxWidth x 1 cells                                                      *)
RunMods == [DefaultMods EXCEPT !.width = MaxWidth, !.height = 1]

(* the images of the frame files: the first cell with or without a         *)
(* gradient, all samples dark or all bright, and a file sharp cannot       *)
(* decode                                                                  *)
RunImages ==
    {[kind |-> "png",
      G |-> [k \in 1..NumCells(RunMods) |-> IF k = 1 THEN g ELSE <<0, 0>>],
      samples |-> [k \in 1..NumCells(RunMods) |-> sample]] :
        g \in {<<0, 0>>, <<0, 1>>}, sample \in Samples}
    \cup {[kind |-> "corrupt", G |-> <<>>, samples |-> <<>>]}

(* JSON.stringify of a string: quotes and backslashes are escaped *)
RECURSIVE Escaped(_)
Escaped(str) ==
    IF str = <<>> THEN <<>>
    ELSE (IF Head(str) \in {"\"", "\\"} THEN <<"\\", Head(str)>> ELSE <<Head(str)>>)
         \o Escaped(Tail(str))

JSONString(str) == <<"\"">> \o Escaped(str) \o <<"\"">>

(* the items of an array, separated by commas *)
RECURSIVE Joined(_)
Joined(items) ==
    IF items = <<>> THEN <<>>
    ELSE IF Len(items) = 1 THEN items[1]
    ELSE items[1] \o <<",">> \o Joined(Tail(items))

JSONArray(items) == <<"[">> \o Joined(items) \o <<"]">>

(* JSON.stringify(state.asciiResult): an array of arrays of strings *)
JSONStringify(result) ==
    JSONArray([k \in 1..Len(result) |->
                  JSONArray([r \in 1..Len(result[k]) |-> JSONString(result[k][r])])])

(* state.asciiResult[i] = value, for i up to the length of the array *)
SetAt(array, index, value) ==
    IF index < Len(array) THEN [array EXCEPT ![index + 1] = value]
    ELSE Append(array, value)

(* SpecRun starts when runConverter is called: createFrames has filled     *)
(* state.frames with the sorted frame files of the temporary directory     *)
(* (video input) or with the input path (image input).                     *)
InitRun ==
    /\ variant = "A"
    /\ pc = "run"
    /\ \/ \E k \in 1..MaxFrames : \E files \in [1..k -> RunImages] :
             /\ fs = [tmpDir |-> TRUE, frames |-> files, input |-> AnyImg,
                      output |-> <<>>]
             /\ state = [frames |-> [j \in 1..k |-> TmpFrame(j)],
                         asciiResult |-> <<>>, live |-> TRUE]
       \/ \E image \in RunImages :
             /\ fs = [tmpDir |-> TRUE, frames |-> <<>>, input |-> image,
                      output |-> <<>>]
             /\ state = [frames |-> <<InputPath>>, asciiResult |-> <<>>,
                         live |-> TRUE]
    /\ options \in [output : {"ascii.json"}, spaceChar : {<<" ">>, <<"_">>},
                   preview : BOOLEAN]
    /\ img = AnyImg
    /\ frame = 0
    /\ clean = FALSE
    /\ term = InitialTerm
    /\ removals = 0
    /\ mods = NoMods
    /\ pixels = <<>>
    /\ text = <<>>
    /\ err = "none"
    /\ last = NoCall
    /\ row = 0
    /\ col = 0
    /\ data = NoData
    /\ buffer = <<>>
    /\ edgeLayer = <<>>
    /\ argv = NoData
    /\ angle = 0
    /\ edgeChar = ""

(* ReadFrame with a fault: every AsciiImg writes to the same text array *)
ReadFrame_sharedText ==
    /\ pc = "run"
    /\ frame < Len(state.frames)
    /\ IF Exists(state.frames[frame + 1])
       THEN /\ img' = Content(state.frames[frame + 1])
            /\ argv' = [op |-> "new", imgMods |-> {}]
            /\ mods' = RunMods
            /\ text' = IF frame = 0 THEN EmptyRows(RunMods.height) ELSE text
            /\ edgeLayer' = <<>>
            /\ last' = NoCall
            /\ pc' = "constructed"
            /\ err' = "none"
       ELSE /\ err' = "ENOENT"
            /\ pc' = "failed"
            /\ UNCHANGED <<img, argv, mods, text, edgeLayer, last>>
    /\ UNCHANGED <<term, removals, state, options, fs, frame, clean, variant, pixels, row, col,
                   data, buffer, angle, edgeChar>>

(* the loop test, readFileSync and new AsciiImg(buffer), up to the first   *)
(* await of edgeToAscii; a missing file makes readFileSync throw           *)
ReadFrame ==
    /\ pc = "run"
    /\ frame < Len(state.frames)
    /\ IF Exists(state.frames[frame + 1])
       THEN /\ img' = Content(state.frames[frame + 1])
            /\ argv' = [op |-> "new", imgMods |-> {}]
            /\ mods' = RunMods
            /\ text' = EmptyRows(RunMods.height)
            /\ edgeLayer' = <<>>
            /\ last' = NoCall
            /\ pc' = "constructed"
            /\ err' = "none"
       ELSE /\ err' = "ENOENT"
            /\ pc' = "failed"
            /\ UNCHANGED <<img, argv, mods, text, edgeLayer, last>>
    /\ UNCHANGED <<term, removals, state, options, fs, frame, clean, variant, pixels, row, col,
                   data, buffer, angle, edgeChar>>

(* EdgeReject with a fault: the rejection is caught and the frame is kept  *)
(* as it is, blank                                                         *)
EdgeReject_blank ==
    /\ pc = "constructed"
    /\ img.kind = "corrupt"
    /\ err' = "none"
    /\ pc' = "done"
    /\ UNCHANGED <<term, removals, img, state, options, fs, frame, clean, variant, mods, pixels,
                   text, last, row, col, data, buffer, edgeLayer, argv, angle,
                   edgeChar>>

(* the awaited convolution rejects: nothing in edgeToAscii or runConverter *)
(* catches it                                                              *)
EdgeReject ==
    /\ pc = "constructed"
    /\ img.kind = "corrupt"
    /\ err' = "Error"
    /\ pc' = "failed"
    /\ UNCHANGED <<term, removals, img, state, options, fs, frame, clean, variant, mods, pixels,
                   text, last, row, col, data, buffer, edgeLayer, argv, angle,
                   edgeChar>>

(* StoreFrame with a fault: state.asciiResult.unshift(asciiImg.text) *)
StoreFrame_unshift ==
    /\ pc = "done"
    /\ state' = [state EXCEPT !.asciiResult = <<text>> \o @]
    /\ frame' = frame + 1
    /\ pc' = "run"
    /\ UNCHANGED <<term, removals, img, options, fs, clean, variant, mods, pixels, text, err,
                   last, row, col, data, buffer, edgeLayer, argv, angle, edgeChar>>

(* state.asciiResult[i] = asciiImg.text; i++ *)
StoreFrame ==
    /\ pc = "done"
    /\ state' = [state EXCEPT !.asciiResult = SetAt(@, frame, text)]
    /\ frame' = frame + 1
    /\ pc' = "run"
    /\ UNCHANGED <<term, removals, img, options, fs, clean, variant, mods, pixels, text, err,
                   last, row, col, data, buffer, edgeLayer, argv, angle, edgeChar>>

(* the loop is over: writeFileSync(options.output, JSON.stringify(...)) *)
WriteOutput ==
    /\ pc = "run"
    /\ ~(frame < Len(state.frames))
    /\ fs' = [fs EXCEPT !.output = <<JSONStringify(state.asciiResult)>>]
    /\ pc' = "written"
    /\ UNCHANGED <<term, removals, img, state, options, frame, clean, variant, mods, pixels,
                   text, err, last, row, col, data, buffer, edgeLayer, argv,
                   angle, edgeChar>>

(* the body of gracefulExit: the temporary directory is removed with all   *)
(* its files, once                                                         *)
(* the values the process hands to its listeners: the exit code, the name  *)
(* of the signal, the Error of uncaughtException, the reason of            *)
(* unhandledRejection                                                      *)
Signals == {[kind |-> "signal", value |-> s] :
               s \in {"SIGINT", "SIGTERM", "SIGHUP", "SIGBREAK"}}

ErrorOf(message) == [kind |-> "Error", value |-> message]

ExitCode(n) == [kind |-> "number", value |-> n]

(* code instanceof Error *)
IsError(code) == code.kind = "Error"

(* the terminal after gracefulExit(code) *)
ExitTerm(code, latch) ==
    LET restored == IF options.preview
                    THEN [term EXCEPT !.cursor = TRUE, !.alternate = FALSE]
                    ELSE term
    IN  IF ~latch /\ IsError(code)
        THEN [restored EXCEPT !.log = Append(@, code.value)]
        ELSE restored

(* gracefulExit with a fault: clean is never set *)
gracefulExit_noLatch(code) ==
    /\ state' = [state EXCEPT !.live = FALSE]
    /\ term' = ExitTerm(code, clean)
    /\ IF ~clean
       THEN /\ IF fs.tmpDir
               THEN fs' = [fs EXCEPT !.tmpDir = FALSE] /\ removals' = removals + 1
               ELSE UNCHANGED <<fs, removals>>
            /\ clean' = clean
       ELSE UNCHANGED <<fs, removals, clean>>

gracefulExit(code) ==
    /\ state' = [state EXCEPT !.live = FALSE]
    /\ term' = ExitTerm(code, clean)
    /\ IF ~clean
       THEN /\ IF fs.tmpDir
               THEN fs' = [fs EXCEPT !.tmpDir = FALSE] /\ removals' = removals + 1
               ELSE UNCHANGED <<fs, removals>>
            /\ clean' = TRUE
       ELSE UNCHANGED <<fs, removals, clean>>

(* SIGINT, SIGTERM, SIGHUP or SIGBREAK: the handler runs while             *)
(* runConverter waits for sharp, in edgeToAscii or in lumaToAscii          *)
Signal ==
    /\ pc \in {"constructed", "edged"}
    /\ \E signal \in Signals : gracefulExit(signal)
    /\ UNCHANGED <<img, options, frame, variant, mods, pixels, text, err, last,
                   pc, row, col, data, buffer, edgeLayer, argv, angle, edgeChar>>

(* uncaughtException: the rejection of runConverter reaches the handler *)
Uncaught ==
    /\ pc = "failed"
    /\ gracefulExit(ErrorOf(err))
    /\ pc' = "crashed"
    /\ UNCHANGED <<img, options, frame, variant, mods, pixels, text, err, last,
                   row, col, data, buffer, edgeLayer, argv, angle, edgeChar>>

(* exit: nothing is left to run *)
Exit ==
    /\ pc \in {"written", "crashed"}
    /\ gracefulExit(ExitCode(IF pc = "crashed" THEN 1 ELSE 0))
    /\ pc' = "exited"
    /\ UNCHANGED <<img, options, frame, variant, mods, pixels, text, err, last,
                   row, col, data, buffer, edgeLayer, argv, angle, edgeChar>>

NextRun ==
    \/ ReadFrame \/ Convert \/ EdgeReject \/ StoreFrame \/ WriteOutput
    \/ Signal \/ Uncaught \/ Exit

SpecRun == InitRun /\ [][NextRun]_vars

----------------------------------------------------------------------------
(* Properties of the write rule *)

IsGlyph(c) == c # " " /\ c # Undefined

(* C1: once a cell holds a non-space character no stitchText call changes  *)
(* the character at that cell, and the call that finds such a cell changes *)
(* nothing and raises no error.                                            *)
C1_NonSpaceKept ==
    [][/\ \A r \in 0..(Len(text) - 1), c \in 0..(mods.width - 1) :
            IsGlyph(CharAt(text[r + 1], c))
                => CharAt(text'[r + 1], c) = CharAt(text[r + 1], c)
       /\ (last'.op = "stitchText" /\ IsGlyph(last'.target))
            => (err' = "none" /\ text' = text)]_vars

(* a call with another non-space character found a non-space cell *)
C1_Witness ==
    /\ last.op = "stitchText"
    /\ IsGlyph(last.target)
    /\ last.char # " "
    /\ last.char # last.target

(* C2: a call that finds its cell unset leaves its character at column col *)
(* of the row, whatever the length of the row.                             *)
C2_UnsetCellSet ==
    (last.op = "stitchText" /\ err = "none" /\ last.target = Undefined)
        => CharAt(text[last.row + 1], last.col) = last.char

(* C3: a call that finds a space in its cell leaves its character there    *)
(* and the row as long as before.                                          *)
C3_SpaceReplaced ==
    (last.op = "stitchText" /\ last.target = " ")
        => /\ CharAt(text[last.row + 1], last.col) = last.char
           /\ Len(text[last.row + 1]) = Len(last.before[last.row + 1])

(* a space has been replaced by a non-space character inside a row *)
C3_Witness ==
    /\ last.op = "stitchText"
    /\ last.target = " "
    /\ last.char # " "
    /\ Len(text[last.row + 1]) > 1

(* C10: from every grid, writing a non-space character twice to a cell     *)
(* gives the grid that writing it once gives, and writing a non-space      *)
(* character to a cell that holds one changes nothing.                     *)
C10_Idempotent ==
    [][/\ (/\ last.op = "stitchText" /\ last'.op = "stitchText"
           /\ err = "none"
           /\ last'.row = last.row /\ last'.col = last.col
           /\ last'.char = last.char /\ last.char # " ")
            => text' = text
       /\ (last'.op = "stitchText" /\ IsGlyph(last'.target) /\ last'.char # " ")
            => (text' = text /\ err' = "none")]_vars

----------------------------------------------------------------------------
(* Properties of the classifier *)

Buckets(a) ==
    {b \in {"horizontal", "right", "vertical", "left"} :
        \/ b = "horizontal" /\ InHorizontal(a)
        \/ b = "right" /\ InRightDiagonal(a)
        \/ b = "vertical" /\ InVertical(a)
        \/ b = "left" /\ InLeftDiagonal(a)}

(* C6: every integer degree 0..180 gets its glyph: 0-19 and 161-180 '-',   *)
(* 20-70 '\', 71-109 '|', 110-160 '/'; it matches exactly one bucket and   *)
(* so never takes the last branch.                                         *)
C6_Partition ==
    (pc = "classified" /\ angle \in 0..180)
        => /\ Cardinality(Buckets(angle)) = 1
           /\ angle \in (0..19) \cup (161..180) => edgeChar = "-"
           /\ angle \in 20..70 => edgeChar = "\\"
           /\ angle \in 71..109 => edgeChar = "|"
           /\ angle \in 110..160 => edgeChar = "/"

(* a boundary degree has been classified *)
C6_Witness ==
    /\ pc = "classified"
    /\ angle = 20
    /\ edgeChar = "\\"

----------------------------------------------------------------------------
(* Properties of the conversion of a frame *)

(* the character of the grid at cell index *)
CellAt(index) == CharAt(text[(index \div mods.width) + 1], index % mods.width)

(* C4: once the edge pass is over, every cell for which it wrote a         *)
(* non-space glyph holds that glyph, during and after the luminance pass,  *)
(* whatever the samples are.                                               *)
C4_EdgeGlyphKept ==
    pc \in {"edged", "luma", "done"}
        => \A index \in 0..(NumCells(mods) - 1) :
               IsGlyph(edgeLayer[index + 1]) => CellAt(index) = edgeLayer[index + 1]

(* the luminance pass has called stitchText with '#' for a cell that holds *)
(* an edge glyph                                                           *)
C4_Witness ==
    /\ pc = "luma"
    /\ last.op = "stitchText"
    /\ last.char = "#"
    /\ IsGlyph(edgeLayer[last.row * mods.width + last.col + 1])
    /\ CellAt(last.row * mods.width + last.col) # "#"

(* C5: for a positive width and height the converted frame has height rows *)
(* of width characters.                                                    *)
C5_GridShape ==
    (pc = "done" /\ mods.width > 0 /\ mods.height > 0)
        => /\ Len(text) = mods.height
           /\ \A r \in 1..Len(text) : Len(text[r]) = mods.width

(* a frame with several rows and columns has been converted *)
C5_Witness ==
    /\ pc = "done"
    /\ mods.width > 1
    /\ mods.height > 1
    /\ \E r \in 1..Len(text) : \E c \in 0..(mods.width - 1) :
          IsGlyph(CharAt(text[r], c))

(* every gradient of the frame is 0 *)
Uniform ==
    /\ data.op = "edgeToAscii"
    /\ \A i \in 0..(NumCells(mods) - 1) :
          getInt16(data.Gx, i * 2) = 0 /\ getInt16(data.Gy, i * 2) = 0

(* C7: when every gradient is 0, magnitude.max is 0, the threshold is a    *)
(* finite 0 for every ratio, and the edge pass writes only spaces.         *)
C7_UniformBlank ==
    (pc = "edge" /\ NumCells(mods) > 0 /\ Uniform)
        => /\ data.max = [finite |-> TRUE, sq |-> 0]
           /\ ThresholdIsZero(data.threshold)
           /\ \A i \in 1..Len(edgeLayer) : edgeLayer[i] = " "
           /\ \A r \in 1..Len(text) : \A c \in 1..Len(text[r]) : text[r][c] = " "
           /\ ~(row < mods.height) => Len(edgeLayer) = NumCells(mods)

(* the edge pass has gone over a uniform frame of several cells with the   *)
(* ratio 1                                                                 *)
C7_Witness ==
    /\ pc = "edge"
    /\ Uniform
    /\ mods.threshold = [num |-> 1, den |-> 1]
    /\ ~(row < mods.height)
    /\ Len(edgeLayer) > 1

(* the options give a non-positive width or height, a threshold outside   *)
(* [0, 1] or an empty density string                                       *)
InvalidConfig ==
    /\ argv.op = "argv"
    /\ \/ \E i \in 1..Len(argv.dimensions) : i <= 2 /\ argv.dimensions[i] <= 0
       \/ /\ ~argv.threshold.nan
          /\ \/ argv.threshold.num < 0
             \/ argv.threshold.num > argv.threshold.den
       \/ argv.pixels = <<>>

(* C8: a configuration with a non-positive width or height, a threshold    *)
(* outside [0, 1] or an empty density string is rejected before any        *)
(* conversion work, and no grid is produced for it.                        *)
C8_InvalidRejected ==
    InvalidConfig => (pc \in {"argv", "rejected"} /\ text = <<>>)

----------------------------------------------------------------------------
(* Properties of the luminance mappers *)

(* the density string the mapper that ran indexes *)
DensityOf ==
    IF variant = "lumaToChar" THEN pixels
    ELSE IF variant = "char.ts" THEN LUMA_CHARS ELSE DENSITY

(* the index that mapper gives to the sample v *)
LumaIndex(v) ==
    IF variant = "lumaToChar" THEN lumaToCharIndex(pixels, v)
    ELSE IF variant = "char.ts" THEN determineLumaIndex(v) ELSE charIndex(v)

(* C11: for a density string of length >= 1 and samples a <= b in 0..255   *)
(* the index chosen for a is less than or equal to the index chosen for b. *)
C11_Monotone ==
    pc = "mapped" /\ Len(DensityOf) >= 1 =>
        \A a \in 0..buffer[1] : LumaIndex(a) <= data.index

(* determineLumaChar has mapped the brightest sample to the last index,    *)
(* above the index of the darkest                                          *)
C11_Witness ==
    /\ pc = "mapped" /\ variant = "char.ts"
    /\ buffer[1] = 255 /\ data.index = Len(LUMA_CHARS) - 1
    /\ LumaIndex(0) = 0

(* floor(v * (n - 1) / 255) and the nearest integer to v * (n - 1) / 255 *)
FloorIndex(v, n) == (v * (n - 1)) \div 255

NearestIndex(v, n) == (2 * v * (n - 1) + 255) \div 510

(* C12 as stated: for every sample v and density string of length n every  *)
(* variant of the mapper selects the index floor(v * (n - 1) / 255).       *)
C12_FloorEverywhere ==
    pc = "mapped" => data.index = FloorIndex(buffer[1], Len(DensityOf))

(* C12, amended: determineLumaChar and lumaToChar select the character at  *)
(* index floor(v * (n - 1) / 255); luminanceToASCII of main.ts selects the *)
(* index nearest to v * (n - 1) / 255; in all three 0 is sent to index 0   *)
(* and 255 to index n - 1.                                                 *)
C12_FloorOrNearest ==
    pc = "mapped" =>
        LET v == buffer[1]
            n == Len(DensityOf)
        IN  /\ variant # "main.ts" =>
                   /\ data.index = FloorIndex(v, n)
                   /\ data.char = CharAt(DensityOf, FloorIndex(v, n))
            /\ variant = "main.ts" =>
                   /\ data.index = NearestIndex(v, n)
                   /\ data.char = CharAt(DensityOf, NearestIndex(v, n))
            /\ v = 0 => data.index = 0
            /\ v = 255 => data.index = n - 1

(* luminanceToASCII has chosen the index above the floor                   *)
C12_Witness ==
    /\ pc = "mapped" /\ variant = "main.ts"
    /\ data.index = FloorIndex(buffer[1], Len(DENSITY)) + 1

----------------------------------------------------------------------------
(* Properties of the constructor *)

----------------------------------------------------------------------------
(* Properties of the threshold *)

(* the ratio t1 is at most the ratio t2 *)
RatioLeq(t1, t2) == t1.num * t2.den <= t2.num * t1.den

(* C20: for the same gradients and thresholds t1 <= t2 every cell rendered *)
(* as an edge glyph at t1 is also rendered as an edge glyph at t2.  t1 is  *)
(* the threshold of the AsciiImg whose edge pass is running; the glyph at  *)
(* t2 is what the comparison of that pass gives with t2 in its place.      *)
C20_HigherThresholdMoreEdges ==
    pc = "edge" /\ variant = "A" =>
        \A t2 \in Thresholds :
            RatioLeq(mods.threshold, t2) =>
                \A index \in 0..(NumCells(mods) - 1) :
                    EdgeCharAt(index) # " " =>
                        Exceeds(data.all[index + 1], ThresholdOf(data.max, t2))

----------------------------------------------------------------------------
(* Properties of runConverter *)

(* C13: within one frame's conversion the luminance pass writes its first  *)
(* cell only after the edge pass has written all width * height cells, and *)
(* no luminance write is interleaved with edge writes: every luminance     *)
(* write finds the edge layer complete, and every edge write is made       *)
(* before lumaToAscii has its buffer.                                      *)
C13_EdgePassFirst ==
    [][/\ LumaCell => Len(edgeLayer) = NumCells(mods) /\ edgeLayer' = edgeLayer
       /\ EdgeCell => buffer = <<>> /\ pc' = "edge"]_vars

(* the luminance pass of the second frame has written a cell *)
C13_Witness ==
    /\ pc = "luma" /\ col > 0 /\ frame = 1
    /\ Len(edgeLayer) = NumCells(mods) /\ NumCells(mods) > 1

(* C14: when runConverter finishes the result list has one entry per input *)
(* frame, entry i is the text of the AsciiImg made from frame i, stored at *)
(* index i, and the output file is written only after every frame has been *)
(* converted; the file holds the entries in that order.                    *)
C14_OrderedResult ==
    /\ [](pc = "written" =>
             /\ Len(state.asciiResult) = Len(state.frames)
             /\ fs.output = <<JSONStringify(state.asciiResult)>>)
    /\ [](fs.output # <<>> =>
             /\ frame = Len(state.frames)
             /\ Len(state.asciiResult) = Len(state.frames))
    /\ [][state.asciiResult' # state.asciiResult =>
             /\ img = Content(state.frames[frame + 1])
             /\ Len(state.asciiResult) = frame
             /\ state.asciiResult' = Append(state.asciiResult, text)]_vars

(* the output of two frames with different texts has been written *)
C14_Witness ==
    /\ pc = "written"
    /\ Len(state.asciiResult) = 2
    /\ state.asciiResult[1] # state.asciiResult[2]

(* the calls stitchText(row, col, chars[index]) of one pass over the cells *)
(* 0 .. k-1                                                                *)
RECURSIVE PassText(_, _, _, _)
PassText(txt, chars, m, k) ==
    IF k = 0 THEN txt
    ELSE stitchText(PassText(txt, chars, m, k - 1),
                    (k - 1) \div m.width, (k - 1) % m.width, chars[k])

(* the text of one image converted on its own: new AsciiImg, edgeToAscii,  *)
(* lumaToAscii                                                             *)
FrameText(image, m) ==
    LET n == NumCells(m)
        d == EdgeData(image.G, m)
        edge == [k \in 1..n |-> EdgeCharIn(d, k - 1)]
        luma == [k \in 1..n |-> determineLumaChar(image.samples[k])]
    IN  PassText(PassText(EmptyRows(m.height), edge, m, n), luma, m, n)

(* C15: the text of a frame depends only on that frame's samples and the   *)
(* config: every entry of the result is the text of its frame converted on *)
(* its own, whatever the batch and the position, and no step changes an    *)
(* entry once it is recorded.                                              *)
C15_FramesIndependent ==
    /\ [](\A k \in 1..Len(state.asciiResult) :
             state.asciiResult[k] = FrameText(Content(state.frames[k]), RunMods))
    /\ [][\A k \in 1..Len(state.asciiResult) :
             /\ k <= Len(state.asciiResult')
             /\ state.asciiResult'[k] = state.asciiResult[k]]_vars

(* two different images have been converted one after the other *)
C15_Witness ==
    /\ Len(state.asciiResult) = 2
    /\ Content(state.frames[1]) # Content(state.frames[2])
    /\ state.asciiResult[2] = FrameText(Content(state.frames[2]), RunMods)
    /\ state.asciiResult[2] # state.asciiResult[1]

(* C16: once a termination signal has arrived while frames are being       *)
(* converted no further frame is converted, no output file is written      *)
(* afterwards and no partially written grid is exposed.                    *)
C16_CancelAbandons ==
    [][~state.live =>
          /\ state.asciiResult' = state.asciiResult
          /\ fs.output' = fs.output
          /\ \A k \in 1..Len(state.asciiResult') :
                 \A r \in 1..Len(state.asciiResult'[k]) :
                     Len(state.asciiResult'[k][r]) = RunMods.width]_vars

(* C17: a failure to read or decode a frame propagates: runConverter stops *)
(* with the error, no entry is stored for the frame, the frame is not      *)
(* read again and the output file is not written.                          *)
C17_FailurePropagates ==
    /\ [](err # "none" =>
             /\ pc \in {"failed", "crashed", "exited"}
             /\ Len(state.asciiResult) = frame
             /\ fs.output = <<>>)
    /\ [](\A k \in 1..Len(state.asciiResult) :
             Content(state.frames[k]).kind # "corrupt")
    /\ [][err # "none" =>
             /\ state.asciiResult' = state.asciiResult
             /\ fs.output' = fs.output
             /\ frame' = frame /\ img' = img /\ err' = err]_vars

(* the second frame could not be decoded *)
C17_Witness ==
    /\ pc = "failed" /\ err = "Error"
    /\ frame = 1 /\ Len(state.asciiResult) = 1
    /\ fs.output = <<>>

(* C19: when the space character option is a string other than one space  *)
(* the written output contains no plain space.                             *)
C19_SpacesReplaced ==
    fs.output # <<>> /\ options.spaceChar # <<" ">> =>
        \A c \in 1..Len(fs.output[1]) : fs.output[1][c] # " "

----------------------------------------------------------------------------
(* Properties of the edge pass *)

(* C21: in the edge pass a cell receives an edge glyph exactly when its    *)
(* magnitude sqrt(Gx^2 + Gy^2) is strictly greater than the maximum        *)
(* magnitude times the threshold ratio (compared here by exact squares),   *)
(* and a space otherwise; with the ratio 1 no cell receives an edge glyph. *)
C21_StrictThreshold ==
    pc = "edge" /\ variant = "A" /\ data.max.finite =>
        \A index \in 0..(NumCells(mods) - 1) :
            LET t == mods.threshold
                magnitudeSq == MagnitudeSq(getInt16(data.Gx, index * 2),
                                           getInt16(data.Gy, index * 2))
            IN  /\ EdgeCharAt(index) # " " <=>
                       magnitudeSq * t.den * t.den > data.max.sq * t.num * t.num
                /\ t.num = t.den => EdgeCharAt(index) = " "

----------------------------------------------------------------------------
(* Properties of stitchText, continued *)

(* C22: a stitchText call addressed to (row, col) changes at most the cell *)
(* (row, col): every other row and every other column of the same row is   *)
(* as before the call, and a cell that changes goes from unset to a space   *)
(* or a glyph, or from a space to a glyph, never back to unset.             *)
C22_OnlyAddressedCell ==
    (last.op = "stitchText" /\ err = "none") =>
        \A r \in 1..Len(text), c \in 0..(mods.width - 1) :
            LET old == CharAt(last.before[r], c)
                new == CharAt(text[r], c)
            IN  /\ (r - 1 # last.row \/ c # last.col) => new = old
                /\ new # old => old = Undefined \/ (old = " " /\ IsGlyph(new))

----------------------------------------------------------------------------
(* SpecAngle: the two passes run on a grid of one cell whose gradient is   *)
(* any pair of small signed values or a pair at the ends of the signed     *)
(* 16-bit range, with the threshold 0, so that every cell with a gradient  *)
(* is classified.  Both edge passes are covered: "A" normalises the angle  *)
(* in radians and rounds it, "B" rounds the gradient angle to degrees      *)
(* first.                                                                  *)

MaxGrad == 3

ExtremePairs ==
    {<<-1, -32768>>, <<1, -32768>>, <<-1, 32767>>, <<1, 32767>>,
     <<-32768, -1>>, <<32767, 1>>, <<32767, 32767>>, <<-32767, -32767>>,
     <<32767, -32768>>, <<-32768, 32767>>, <<-32768, 0>>, <<32767, 0>>,
     <<0, -32768>>, <<0, 32767>>}

AnglePairs ==
    {<<gx, gy>> : gx \in (0 - MaxGrad)..MaxGrad, gy \in (0 - MaxGrad)..MaxGrad}
        \cup ExtremePairs

OneCell == [width |-> 1, height |-> 1, threshold |-> [num |-> 0, den |-> 1]]

InitAngle ==
    /\ state = InitialState
    /\ options = NoOptions
    /\ fs = NoFiles
    /\ frame = 0
    /\ clean = FALSE
    /\ term = InitialTerm
    /\ removals = 0
    /\ variant \in {"A", "B"}
    /\ \E g \in AnglePairs, v \in Samples :
          img = [kind |-> "png", G |-> <<g>>, samples |-> <<v>>]
    /\ mods = OneCell
    /\ pixels = IF variant = "B" THEN LUMA_CHARS ELSE <<>>
    /\ text = EmptyRows(1)
    /\ pc = "constructed"
    /\ err = "none"
    /\ last = NoCall
    /\ row = 0
    /\ col = 0
    /\ data = NoData
    /\ buffer = <<>>
    /\ edgeLayer = <<>>
    /\ argv = NoData
    /\ angle = 0
    /\ edgeChar = ""

NextAngle == Convert

SpecAngle == InitAngle /\ [][NextAngle]_vars

(* the degree value the edge pass hands to its classifier for a gradient *)
AngleDegOf(gx, gy) ==
    IF variant = "A" THEN EdgeAngleDeg(gx, gy) ELSE EdgeAngleDegRounded(gx, gy)

(* the gradient of the only cell, as the edge pass reads it *)
CellGx == getInt16(data.Gx, 0)
CellGy == getInt16(data.Gy, 0)

(* the only cell is classified: its magnitude exceeds the threshold *)
Classified == pc = "edge" /\ Exceeds(data.all[1], data.threshold)

(* C23: for every signed 16-bit gradient pair the degree handed to the     *)
(* classifier is an integer in 0 .. 180, so the edge pass never writes the *)
(* fallback "+", in the pass that normalises in radians and in the pass    *)
(* that rounds to degrees first.                                           *)
C23_DegreeInRange ==
    /\ Classified => AngleDegOf(CellGx, CellGy) \in 0..180
    /\ \A i \in 1..Len(edgeLayer) : edgeLayer[i] # "+"

(* the radians pass classifies a gradient just past straight down: 180 *)
C23_Witness ==
    /\ Classified /\ variant = "A"
    /\ edgeLayer = <<"-">>
    /\ AngleDegOf(CellGx, CellGy) = 180

(* the negation of a signed 16-bit value is one too *)
Negatable(g) == g # -32768

(* C24: the edge glyph is perpendicular to the gradient: "|" for Gy = 0    *)
(* and Gx # 0, "-" for Gx = 0 and Gy # 0, "/" for Gx = Gy # 0 and "\" for  *)
(* Gx = -Gy # 0; and the glyph of (Gx, Gy) is the glyph of (-Gx, -Gy).     *)
C24_Perpendicular ==
    (Classified /\ Len(edgeLayer) = 1) =>
        LET gx == CellGx
            gy == CellGy
            char == edgeLayer[1]
        IN  /\ (gy = 0 /\ gx # 0) => char = "|"
            /\ (gx = 0 /\ gy # 0) => char = "-"
            /\ (gx = gy /\ gx # 0) => char = "/"
            /\ (gx = 0 - gy /\ gx # 0) => char = "\\"
            /\ (Negatable(gx) /\ Negatable(gy)) =>
                   char = EdgeCharIn(EdgeData(<<<<0 - gx, 0 - gy>>>>, mods), 0)

(* a diagonal gradient pointing down and left has been written as "/" *)
C24_Witness ==
    /\ Classified /\ edgeLayer = <<"/">>
    /\ CellGx = CellGy /\ CellGx < 0

----------------------------------------------------------------------------
(* SpecSplit: createFrames of src/cli.ts.  The input is a video of 1 ..    *)
(* MaxFrameCount frames or an image.  ffprobe reports the number of        *)
(* frames, ffmpeg writes frame k to the file its pattern gives for k,      *)
(* readdirSync lists the temporary directory and sort orders the names by  *)
(* UTF-16 code units.  Here fs.frames is the list of the names of the      *)
(* files of the temporary directory, a name being its characters.          *)
(* src/cli/cli.ts 111-139 is the same code on config.frames.source.        *)

MaxFrameCount == 10

(* the UTF-16 code unit of the characters of a frame's file name *)
CodeUnit ==
    ("." :> 46) @@ ("0" :> 48) @@ ("1" :> 49) @@ ("2" :> 50) @@ ("3" :> 51)
    @@ ("4" :> 52) @@ ("5" :> 53) @@ ("6" :> 54) @@ ("7" :> 55) @@ ("8" :> 56)
    @@ ("9" :> 57) @@ ("_" :> 95) @@ ("a" :> 97) @@ ("e" :> 101) @@ ("f" :> 102)
    @@ ("g" :> 103) @@ ("m" :> 109) @@ ("n" :> 110) @@ ("p" :> 112) @@ ("r" :> 114)

DigitChars == <<"0", "1", "2", "3", "4", "5", "6", "7", "8", "9">>

(* the decimal digits of k >= 0 *)
RECURSIVE Decimal(_)
Decimal(k) ==
    IF k < 10 THEN <<DigitChars[k + 1]>>
    ELSE Decimal(k \div 10) \o <<DigitChars[(k % 10) + 1]>>

(* %0<width>d of printf *)
RECURSIVE ZeroPadded(_, _)
ZeroPadded(digits, width) ==
    IF Len(digits) >= width THEN digits ELSE ZeroPadded(<<"0">> \o digits, width)

(* Math.ceil(Math.log10(n)) for n >= 1: the least d with 10^d >= n *)
RECURSIVE CeilLog10From(_, _, _)
CeilLog10From(n, d, power) ==
    IF power >= n THEN d ELSE CeilLog10From(n, d + 1, power * 10)

CeilLog10(n) == CeilLog10From(n, 0, 1)

(* frame_%0<frameDigitLen>d.png for frame k, ffmpeg counting from 1 *)
FrameName(k, frameDigitLen) ==
    <<"f", "r", "a", "m", "e", "_">> \o ZeroPadded(Decimal(k), frameDigitLen)
        \o <<".", "p", "n", "g">>

(* the default comparison of Array.prototype.sort: code unit by code unit, *)
(* a proper prefix first                                                   *)
RECURSIVE LexLess(_, _)
LexLess(a, b) ==
    IF b = <<>> THEN FALSE
    ELSE IF a = <<>> THEN TRUE
    ELSE IF CodeUnit[Head(a)] # CodeUnit[Head(b)]
         THEN CodeUnit[Head(a)] < CodeUnit[Head(b)]
         ELSE LexLess(Tail(a), Tail(b))

(* readdirSync(dir).sort() for a directory that holds the files names *)
Sorted(names) ==
    [i \in 1..Cardinality(names) |->
        CHOOSE x \in names : Cardinality({y \in names : LexLess(y, x)}) = i - 1]

NamesOf(files) == {files[i] : i \in 1..Len(files)}

(* path.resolve(global.state.tmpDir, name) *)
Resolved(name) == [dir |-> "tmpDir", name |-> name]

Video(n) == [kind |-> "video", frameCount |-> n]

InitSplit ==
    /\ img = AnyImg
    /\ state = InitialState
    /\ options = NoOptions
    /\ \E input \in {Video(n) : n \in 1..MaxFrameCount} \cup {AnyImg} :
          fs = [tmpDir |-> TRUE, frames |-> <<>>, input |-> input, output |-> <<>>]
    /\ frame = 0
    /\ clean = FALSE
    /\ term = InitialTerm
    /\ removals = 0
    /\ variant = "A"
    /\ pc = "createFrames"
    /\ mods = NoMods
    /\ pixels = <<>>
    /\ text = <<>>
    /\ err = "none"
    /\ last = NoCall
    /\ row = 0
    /\ col = 0
    /\ data = NoData
    /\ buffer = <<>>
    /\ edgeLayer = <<>>
    /\ argv = NoData
    /\ angle = 0
    /\ edgeChar = ""

(* ffprobe counts the frames; the width of the frame number is computed *)
Probe ==
    /\ pc = "createFrames"
    /\ fs.input.kind = "video"
    /\ data' = [op |-> "createFrames", frameCount |-> fs.input.frameCount,
                frameDigitLen |-> CeilLog10(fs.input.frameCount)]
    /\ pc' = "split"
    /\ UNCHANGED <<term, removals, img, state, options, fs, frame, clean, variant, mods, pixels, text, err, last, row, col,
                   buffer, edgeLayer, argv, angle, edgeChar>>

(* ffmpeg writes the next frame of the video *)
SplitFrame ==
    /\ pc = "split"
    /\ Len(fs.frames) < data.frameCount
    /\ fs' = [fs EXCEPT !.frames =
                 Append(@, FrameName(Len(@) + 1, data.frameDigitLen))]
    /\ UNCHANGED <<term, removals, img, state, options, frame, clean, variant, mods, pixels, text, err, last, pc, row, col,
                   data, buffer, edgeLayer, argv, angle, edgeChar>>

(* global.state.frames = fs.readdirSync(global.state.tmpDir).sort() *)
ReadDir ==
    /\ pc = "split"
    /\ Len(fs.frames) = data.frameCount
    /\ state' = [state EXCEPT !.frames = Sorted(NamesOf(fs.frames))]
    /\ frame' = 0
    /\ pc' = "resolve"
    /\ UNCHANGED <<term, removals, img, options, fs, clean, variant, mods, pixels, text, err, last, row, col,
                   data, buffer, edgeLayer, argv, angle, edgeChar>>

(* one turn of the loop that resolves the paths *)
ResolveFrame ==
    /\ pc = "resolve"
    /\ frame < Len(state.frames)
    /\ state' = [state EXCEPT !.frames[frame + 1] = Resolved(@)]
    /\ frame' = frame + 1
    /\ UNCHANGED <<term, removals, img, options, fs, clean, variant, mods, pixels, text, err, last, pc, row, col,
                   data, buffer, edgeLayer, argv, angle, edgeChar>>

ResolveReturn ==
    /\ pc = "resolve"
    /\ ~(frame < Len(state.frames))
    /\ pc' = "framed"
    /\ UNCHANGED <<term, removals, img, state, options, fs, frame, clean, variant, mods, pixels, text, err, last, row, col,
                   data, buffer, edgeLayer, argv, angle, edgeChar>>

(* the input is not a video: it is the only frame *)
SingleFrame ==
    /\ pc = "createFrames"
    /\ fs.input.kind # "video"
    /\ state' = [state EXCEPT !.frames = <<InputPath>>]
    /\ pc' = "framed"
    /\ UNCHANGED <<term, removals, img, options, fs, frame, clean, variant, mods, pixels, text, err, last, row, col,
                   data, buffer, edgeLayer, argv, angle, edgeChar>>

NextSplit ==
    \/ Probe \/ SplitFrame \/ ReadDir \/ ResolveFrame \/ ResolveReturn
    \/ SingleFrame

SpecSplit == InitSplit /\ [][NextSplit]_vars

----------------------------------------------------------------------------
(* SpecPreview: the main module after runConverter has returned.  With     *)
(* --preview the output file is read back and previewed: "actions.ts" is   *)
(* previewAsciiAction of src/cli/actions.ts, "cli.ts" is showAsciiPreview  *)
(* of src/cli.ts.  The listeners of the process run gracefulExit while the *)
(* preview loop waits for its timer; a signal may also have arrived during *)
(* the conversion.  The process exits when nothing is left to run.         *)

(* the frames of a result: grids of one cell *)
PreviewFrames == {<<<<"#">>>>, <<<<" ">>>>}

Lists(S, n) == UNION {[1..k -> S] : k \in 1..n}

(* the results of a conversion of 1 .. MaxFrames frames *)
FrameLists == Lists(PreviewFrames, MaxFrames)

(* JSON.parse of a text that JSON.stringify made of a result *)
JSONParse(content) ==
    IF \E v \in FrameLists : JSONStringify(v) = content
    THEN CHOOSE v \in FrameLists : JSONStringify(v) = content
    ELSE "SyntaxError"

(* the messages of the errors the process can meet while it previews: a    *)
(* failed write to stdout                                                  *)
ErrorMessages == {"write EPIPE", "write EIO"}

InitPreview ==
    /\ variant \in {"actions.ts", "cli.ts"}
    /\ pc = "converted"
    /\ options \in [output : {"ascii.json"}, spaceChar : {<<" ">>}, preview : BOOLEAN]
    /\ \E result \in FrameLists, signalled \in BOOLEAN :
          /\ state = [frames |-> [j \in 1..Len(result) |-> TmpFrame(j)],
                      asciiResult |-> result, live |-> ~signalled]
          /\ fs = [tmpDir |-> ~signalled, frames |-> <<>>, input |-> AnyImg,
                   output |-> <<JSONStringify(result)>>]
          /\ clean = signalled
          /\ removals = IF signalled THEN 1 ELSE 0
    /\ term = InitialTerm
    /\ img = AnyImg
    /\ frame = 0
    /\ mods = NoMods
    /\ pixels = <<>>
    /\ text = <<>>
    /\ err = "none"
    /\ last = NoCall
    /\ row = 0
    /\ col = 0
    /\ data = NoData
    /\ buffer = <<>>
    /\ edgeLayer = <<>>
    /\ argv = NoData
    /\ angle = 0
    /\ edgeChar = ""

(* if (options.preview) is false: the module is over *)
NoPreview ==
    /\ pc = "converted"
    /\ ~options.preview
    /\ pc' = "idle"
    /\ UNCHANGED <<term, removals, img, state, options, fs, frame, clean, variant, mods, pixels, text, err,
                   last, row, col, data, buffer, edgeLayer, argv, angle, edgeChar>>

(* asciiFrames = JSON.parse(fs.readFileSync(options.output, "utf8")) *)
ReadOutput ==
    /\ pc = "converted"
    /\ options.preview
    /\ data' = [op |-> "preview", asciiFrames |-> JSONParse(fs.output[1])]
    /\ pc' = "preview"
    /\ UNCHANGED <<term, removals, img, state, options, fs, frame, clean, variant, mods, pixels, text, err,
                   last, row, col, buffer, edgeLayer, argv, angle, edgeChar>>

(* the terminal after frame i of the preview is written to it *)
Displayed(t, i) ==
    [t EXCEPT !.shown = i, !.screen = data.asciiFrames[i + 1],
              !.late = IF state.live THEN @ ELSE @ + 1]

(* the preview up to its loop: the cursor is hidden; a single frame is     *)
(* displayed at once; the frames of a video are shown on the alternate     *)
(* buffer, which previewAsciiAction enables for a single frame too         *)
StartPreview ==
    /\ pc = "preview"
    /\ LET single == Len(data.asciiFrames) = 1
           hidden == [term EXCEPT !.cursor = FALSE,
                                  !.alternate = variant = "actions.ts" \/ ~single]
       IN  IF single
           THEN /\ term' = Displayed(hidden, 0)
                /\ pc' = "idle"
           ELSE /\ term' = hidden
                /\ pc' = "loop"
    /\ frame' = 0
    /\ UNCHANGED <<removals, img, state, options, fs, clean, variant, mods, pixels, text, err,
                   last, row, col, data, buffer, edgeLayer, argv, angle, edgeChar>>

(* LoopStep with a fault: while (true) *)
LoopStep_ignoreLive ==
    /\ pc = "loop"
    /\ term' = Displayed(term, frame)
    /\ pc' = "sleep"
    /\ UNCHANGED <<removals, img, state, options, fs, frame, clean, variant, mods, pixels, text, err,
                   last, row, col, data, buffer, edgeLayer, argv, angle, edgeChar>>

(* while (global.state.live): the frame is displayed and the timer of the  *)
(* delay is started; the function returns when live is false               *)
LoopStep ==
    /\ pc = "loop"
    /\ IF state.live
       THEN /\ term' = Displayed(term, frame)
            /\ pc' = "sleep"
       ELSE /\ term' = term
            /\ pc' = "idle"
    /\ UNCHANGED <<removals, img, state, options, fs, frame, clean, variant, mods, pixels, text, err,
                   last, row, col, data, buffer, edgeLayer, argv, angle, edgeChar>>

(* the timer fires: i = (i + 1) % asciiFrames.length *)
Wake ==
    /\ pc = "sleep"
    /\ frame' = (frame + 1) % Len(data.asciiFrames)
    /\ pc' = "loop"
    /\ UNCHANGED <<term, removals, img, state, options, fs, clean, variant, mods, pixels, text, err,
                   last, row, col, data, buffer, edgeLayer, argv, angle, edgeChar>>

(* SIGINT, SIGTERM, SIGHUP or SIGBREAK while the loop waits *)
PreviewSignal ==
    /\ pc = "sleep"
    /\ \E signal \in Signals : gracefulExit(signal)
    /\ UNCHANGED <<img, options, frame, variant, mods, pixels, text, err, last,
                   pc, row, col, data, buffer, edgeLayer, argv, angle, edgeChar>>

(* uncaughtException or unhandledRejection while the loop waits *)
PreviewError ==
    /\ pc = "sleep"
    /\ \E message \in ErrorMessages : gracefulExit(ErrorOf(message))
    /\ UNCHANGED <<img, options, frame, variant, mods, pixels, text, err, last,
                   pc, row, col, data, buffer, edgeLayer, argv, angle, edgeChar>>

(* exit: nothing is left to run *)
ProcessExit ==
    /\ pc = "idle"
    /\ gracefulExit(ExitCode(0))
    /\ pc' = "exited"
    /\ UNCHANGED <<img, options, frame, variant, mods, pixels, text, err, last,
                   row, col, data, buffer, edgeLayer, argv, angle, edgeChar>>

(* the steps of the module itself *)
PreviewStep == NoPreview \/ ReadOutput \/ StartPreview \/ LoopStep \/ Wake

NextPreview == PreviewStep \/ PreviewSignal \/ PreviewError \/ ProcessExit

SpecPreview == InitPreview /\ [][NextPreview]_vars

(* the code of the module runs when it can and the timer of the delay      *)
(* fires; nothing is assumed of the events of the process                  *)
SpecPreviewFair == SpecPreview /\ WF_vars(PreviewStep) /\ WF_vars(ProcessExit)

(* C25: for a video of N >= 1 frames createFrames leaves the file of frame *)
(* k at index k - 1 of the frame list, for every N, exact powers of ten    *)
(* included.                                                               *)
C25_FramesInOrder ==
    (pc = "framed" /\ fs.input.kind = "video") =>
        /\ Len(state.frames) = fs.input.frameCount
        /\ \A k \in 1..fs.input.frameCount : state.frames[k] = Resolved(fs.frames[k])

----------------------------------------------------------------------------
(* Properties of gracefulExit and of the preview *)

(* C26: across any sequence of exit events handed to gracefulExit the      *)
(* temporary directory is removed at most once and the message of an error *)
(* is printed at most once, and global.state.live is false from the first  *)
(* event onwards: it is false once gracefulExit has run and never becomes  *)
(* true again.                                                             *)
C26_CleanupOnce ==
    /\ [](removals <= 1 /\ Len(term.log) <= 1 /\ (clean => ~state.live))
    /\ [][~state.live => ~state'.live]_vars

(* an error has been printed and the directory removed, and the exit event *)
(* has come after                                                          *)
C26_Witness ==
    /\ pc = "exited"
    /\ removals = 1
    /\ Len(term.log) = 1

(* the frames of a video are being previewed *)
MultiFrame == data.op = "preview" /\ Len(data.asciiFrames) > 1

(* C27: during a preview of several frames, once global.state.live is      *)
(* false the loop displays at most one more frame and then terminates;     *)
(* the index of the displayed frame stays in 0 .. n - 1, starts at 0 and    *)
(* advances by one modulo n from one displayed frame to the next.          *)
C27_PreviewStops ==
    /\ [](MultiFrame => term.late <= 1)
    /\ [](pc \in {"loop", "sleep"} => frame \in 0..(Len(data.asciiFrames) - 1))
    /\ [][(MultiFrame /\ term'.shown # term.shown) =>
             term'.shown = (term.shown + 1) % Len(data.asciiFrames)]_vars
    /\ (MultiFrame /\ ~state.live) ~> (pc \in {"idle", "exited"})

(* the loop has wrapped around to frame 0 and has returned after an event *)
C27_Witness ==
    /\ MultiFrame
    /\ pc = "idle"
    /\ ~state.live
    /\ frame = 0
    /\ term.shown = Len(data.asciiFrames) - 1

----------------------------------------------------------------------------
(* Properties of the two passes together *)

(* C28: after the edge pass and during and at the end of the luminance     *)
(* pass every cell the luminance pass has visited, and for which the edge  *)
(* pass wrote a space, holds the density character of that cell's own      *)
(* sample, the one at index row * width + col, which may be a space.       *)
C28_OwnSample ==
    (pc = "luma" /\ variant = "A") =>
        \A index \in 0..(row * mods.width + col - 1) :
            edgeLayer[index + 1] = " " =>
                CellAt(index) = CharAt(LUMA_CHARS,
                                       FloorIndex(buffer[index + 1], Len(LUMA_CHARS)))

(* a grid of two cells left blank by the edge pass, with a dark and a      *)
(* bright sample, has been filled: a glyph and a space                     *)
C28_Witness ==
    /\ pc = "luma" /\ variant = "A"
    /\ row = mods.height
    /\ edgeLayer = <<" ", " ">>
    /\ buffer = <<0, 255>>
    /\ CellAt(0) = "#" /\ CellAt(1) = " "

(* C29: for any sequence of stitchText calls with columns in 0 .. width-1  *)
(* and single characters, no row is ever longer than width and no row ever *)
(* gets shorter.                                                           *)
C29_RowLength ==
    /\ [](\A r \in 1..Len(text) : Len(text[r]) <= mods.width)
    /\ [][\A r \in 1..Len(text) : Len(text'[r]) >= Len(text[r])]_vars

(* a row of full width in which the last call replaced a space, beside a   *)
(* space that is still there                                               *)
C29_Witness ==
    /\ last.op = "stitchText" /\ err = "none"
    /\ last.target = " " /\ last.char # " " /\ last.col = 0
    /\ mods.width = MaxWidth
    /\ Len(text[last.row + 1]) = mods.width
    /\ CharAt(text[last.row + 1], mods.width - 1) = " "

(* C30 as stated: for every sample in 0 .. 255 and density string of       *)
(* length n >= 1 the index lies in 0 .. n - 1, so the glyph is never       *)
(* undefined, and the index n - 1 is selected only for the sample 255.     *)
C30_LastIndexOnly255 ==
    (pc = "mapped" /\ variant # "main.ts" /\ Len(DensityOf) >= 1) =>
        /\ data.index \in 0..(Len(DensityOf) - 1)
        /\ data.char # Undefined
        /\ data.index = Len(DensityOf) - 1 => buffer[1] = 255

(* C30, amended: for every sample in 0 .. 255 and density string of length *)
(* n >= 1 the index lies in 0 .. n - 1, so the glyph is never undefined;   *)
(* for n >= 2 the index n - 1 is selected only for the sample 255, and for *)
(* n = 1 every sample selects the only index, 0.                           *)
C30_IndexInRange ==
    (pc = "mapped" /\ variant # "main.ts" /\ Len(DensityOf) >= 1) =>
        /\ data.index \in 0..(Len(DensityOf) - 1)
        /\ data.char # Undefined
        /\ (Len(DensityOf) >= 2 /\ data.index = Len(DensityOf) - 1) => buffer[1] = 255
        /\ Len(DensityOf) = 1 => data.index = 0

(* lumaToChar has mapped the sample 254 of a density string of three       *)
(* characters to the index before the last                                 *)
C30_Witness ==
    /\ pc = "mapped" /\ variant = "lumaToChar"
    /\ Len(pixels) = 3
    /\ buffer[1] = 254
    /\ data.index = 1

====
